---------------------------- MODULE Spec2Model ----------------------------
(***************************************************************************)
(* A model of CXGram (src/Grammar.hpp): the weighted context-free-grammar  *)
(* expansion that Grammar<S, Rs...>::Production<I> performs.  The template *)
(* instantiations are modelled as the steps of a state machine: one step   *)
(* per instantiation of Expand, ExpandImpl, ExpandOneSent/ExpandSymbol,    *)
(* Concat and ConcatImpl.                                                  *)
(*                                                                         *)
(* A size_t is a set of bit positions (the positions of its 1 bits), so    *)
(* that the 64-bit shifts and xors of CalcNextI are exact.  A char is its  *)
(* character code, and a symbol's Name is a NUL-terminated array of codes. *)
(***************************************************************************)
EXTENDS Naturals, Sequences, FiniteSets

VARIABLES
    grammar,    \* the instantiated Grammar<S, Rs...>: [S |-> start, Rs |-> rules]
    seed,       \* the template argument I of Production<I>, a size_t
    pedantic,   \* whether the build rejects zero-size arrays (ISO C++) or accepts them
    st          \* st[r]: the state of evaluation r of Production<I>

vars == <<grammar, seed, pedantic, st>>

----------------------------------------------------------------------------
(* Bounds of the model and constants of the program *)

\* rounds of ExpandImpl a run may start (compilers bound the recursion too)
MaxRounds == 5

\* the seeds 0..MaxSeed are tried, and the all-ones seed
MaxSeed == 10

\* the PRNG states tabulated per seed, next^0 .. next^(StreamLen-1)
StreamLen == 128

\* bits of a size_t
Width == 64

\* sizeof...(Ss) > 100 stops the expansion
SizeBound == 100

\* the terminating '\0' of a char array
NUL == 0

----------------------------------------------------------------------------
(* size_t arithmetic on sets of bit positions *)

Bits == 0 .. (Width - 1)

Shl(i, n) == {b + n : b \in {x \in i : x + n < Width}}

Shr(i, n) == {b - n : b \in {x \in i : x >= n}}

Xor(a, b) == (a \ b) \cup (b \ a)

\* 2^k % m, by repeated squaring
RECURSIVE Pow2Mod(_, _)
Pow2Mod(k, m) ==
    IF k = 0 THEN 1 % m
    ELSE IF k % 2 = 0 THEN (Pow2Mod(k \div 2, m) * Pow2Mod(k \div 2, m)) % m
    ELSE (2 * Pow2Mod(k - 1, m)) % m

\* (the number made of bits lo..hi of i) % m, for a small m > 0
RECURSIVE ModBits(_, _, _, _)
ModBits(i, lo, hi, m) ==
    IF lo = hi
    THEN (IF lo \in i THEN 1 ELSE 0) % m
    ELSE LET mid == (lo + hi) \div 2
         IN  (ModBits(i, mid + 1, hi, m) * Pow2Mod(mid + 1 - lo, m)
              + ModBits(i, lo, mid, m)) % m

\* i % m for a size_t i and a small m > 0
Mod(i, m) == ModBits(i, 0, Width - 1, m)

\* the size_t of a small number
SizeT(n) == {b \in 0 .. 15 : (n \div (2 ^ b)) % 2 = 1}

----------------------------------------------------------------------------
(* The symbols and grammars the caller declares *)

\* Sym::IsTerminal
IsTerminal(s) == s \in {"A", "B", "E"}

\* Sym::Name, a NUL-terminated char array
Name(s) ==
    CASE s = "A" -> <<65, NUL>>
      [] s = "B" -> <<98, 99, NUL>>
      [] s = "E" -> <<NUL>>
      [] s = "Y" -> <<60, 89, 62, NUL>>
      [] s = "Z" -> <<60, 90, 62, NUL>>
      [] OTHER   -> <<NUL>>

\* WRule<W, L, Rs...>
WRule(W, L, Rs) == [Weight |-> W, Lhs |-> L, Rhs |-> Rs]

\* Rule<L, Rs...> = WRule<1, L, Rs...>
Rule(L, Rs) == WRule(1, L, Rs)

\* Grammar<S, Rs...>
Grammar(S, Rs) == [S |-> S, Rs |-> Rs]

GSingle == Grammar("S", <<Rule("S", <<"A">>)>>)

GWeighted ==
    Grammar("S", <<WRule(2, "S", <<"A">>), Rule("X", <<"E">>),
                   WRule(3, "S", <<"B">>), WRule(5, "S", <<"A", "B">>)>>)

GEmptyNames == Grammar("S", <<Rule("S", <<"E", "A", "X", "B">>), Rule("X", <<"E">>)>>)

GTerminalStart == Grammar("B", <<Rule("S", <<"A">>)>>)

GIncomplete == Grammar("S", <<Rule("S", <<"A", "U", "B">>), Rule("X", <<"A">>)>>)

GZeroWeight == Grammar("S", <<WRule(0, "S", <<"A">>), Rule("S", <<"B">>)>>)

GAllZero == Grammar("S", <<WRule(0, "S", <<"A">>)>>)

GLoop == Grammar("S", <<Rule("S", <<"S">>)>>)

GRecursive ==
    Grammar("S", <<Rule("S", <<"A", "S">>), WRule(2, "S", <<"B">>)>>)

GEpsilon ==
    Grammar("S", <<Rule("S", <<"X">>), Rule("S", <<"A", "X">>), Rule("X", <<>>)>>)

\* S -> X^(n-1) Y, X -> A, Y -> Z, Z -> B: the first round produces n symbols
GSized(n) ==
    Grammar("S", <<Rule("S", [k \in 1 .. n |-> IF k < n THEN "X" ELSE "Y"]),
                   Rule("X", <<"A">>), Rule("Y", <<"Z">>), Rule("Z", <<"B">>)>>)

GAtBound == GSized(SizeBound)

GOverBound == GSized(SizeBound + 1)

SmallGrammars ==
    {GSingle, GWeighted, GEmptyNames, GTerminalStart, GIncomplete, GZeroWeight,
     GAllZero, GLoop, GRecursive, GEpsilon}

Grammars == SmallGrammars \cup {GAtBound, GOverBound}

Seeds == {SizeT(n) : n \in 0 .. MaxSeed} \cup {Bits}

----------------------------------------------------------------------------
(* Utility functions and templates *)

\* Strlen that counts the terminating NUL too
Strlen_CountsNul(s) == Len(s)

\* Strlen: the number of chars before the first NUL
RECURSIVE StrlenFrom(_, _)
StrlenFrom(s, i) == IF s[i + 1] # NUL THEN StrlenFrom(s, i + 1) ELSE i

Strlen(s) == StrlenFrom(s, 0)

\* an xorshift that forces the low bit, so that 0 is no fixed point
CalcNextI_LowBit(i) ==
    LET a == Xor(i, Shl(i, 13))
        b == Xor(a, Shr(a, 7))
    IN  Xor(b, Shr(b, 17)) \cup {0}

CalcNextI(i) ==
    LET a == Xor(i, Shl(i, 13))
        b == Xor(a, Shr(a, 7))
    IN  Xor(b, Shr(b, 17))

ListCat(Ls, Rs) == Ls \o Rs

\* ListAppend<Head, List<Tail...>> puts Head in front
ListAppend(H, T) == <<H>> \o T

\* Select<I, List<Head, Tail...>>, I counted from 0
RECURSIVE Select(_, _)
Select(I, L) == IF I = 0 THEN Head(L) ELSE Select(I - 1, Tail(L))

\* WSelectImpl with WeightIdx <= H::Weight
RECURSIVE WSelectImpl_Le(_, _, _)
WSelectImpl_Le(Idx, WeightIdx, Ts) ==
    IF WeightIdx <= Head(Ts).Weight
    THEN Idx
    ELSE WSelectImpl_Le(Idx + 1, WeightIdx - Head(Ts).Weight, Tail(Ts))

RECURSIVE WSelectImpl(_, _, _)
WSelectImpl(Idx, WeightIdx, Ts) ==
    IF WeightIdx < Head(Ts).Weight
    THEN Idx
    ELSE WSelectImpl(Idx + 1, WeightIdx - Head(Ts).Weight, Tail(Ts))

WSelect(I, Ts) == Select(WSelectImpl(0, I, Ts), Ts)

RECURSIVE WeightSum(_)
WeightSum(Rs) == IF Rs = <<>> THEN 0 ELSE Head(Rs).Weight + WeightSum(Tail(Rs))

\* the fold (Rs::IsTerminal && ...), TRUE of the empty list
IsAllTerminal(Rs) == \A k \in 1 .. Len(Rs) : IsTerminal(Rs[k])

RECURSIVE MatchingRules(_, _)
MatchingRules(S, RList) ==
    IF RList = <<>>
    THEN RList
    ELSE LET Tl == MatchingRules(S, Tail(RList))
         IN  IF S = Head(RList).Lhs THEN ListAppend(Head(RList), Tl) ELSE Tl

----------------------------------------------------------------------------
(* One evaluation of Production<I> *)

NoSel == [v |-> {}, sym |-> "", idx |-> 0, rhs |-> <<>>]

InitRun ==
    [pc      |-> "Expand",
     I       |-> seed,       \* InI, the PRNG value threaded through the expansion
     Ss      |-> <<>>,       \* the form the current round started from
     ExpList |-> <<>>,       \* List<Prev...>, the round's output in progress
     rest    |-> <<>>,       \* List<Next, Tail...>, what the round has not scanned yet
     done    |-> FALSE,      \* the bool argument of ExpandImpl
     Str     |-> <<>>,       \* ConcatImpl's Str, the chars concatenated so far
     syms    |-> <<>>,       \* ConcatImpl's Sym, Sym2, Syms...
     String  |-> <<>>,       \* the char array Production<I> points to
     err     |-> "",         \* why the instantiation is ill-formed, if it is
     sizes   |-> <<>>,       \* history: sizeof...(Ss) of every round started
     nexp    |-> 0,          \* history: non-terminals expanded so far
     nts     |-> 0,          \* history: non-terminals in the forms of the rounds completed
     sel     |-> NoSel,      \* history: the last selection made
     steps   |-> 0]          \* history: instantiation steps taken

Init ==
    /\ grammar \in Grammars
    /\ seed \in Seeds
    /\ pedantic \in BOOLEAN
    /\ st = [r \in {1} |-> InitRun]

\* two independent evaluations of the same Production<I>
InitTwo ==
    /\ grammar \in SmallGrammars
    /\ seed \in Seeds
    /\ pedantic \in BOOLEAN
    /\ st = [r \in {1, 2} |-> InitRun]

\* a PRNG state shared by all evaluations
CurI_Shared(r) == st[1].I

\* the PRNG value evaluation r passes to its next instantiation
CurI(r) == st[r].I

Step(r, new) ==
    /\ st' = [st EXCEPT ![r] = [new EXCEPT !.steps = @ + 1]]
    /\ UNCHANGED <<grammar, seed, pedantic>>

\* the size test with >= for >
StopCond_Ge(PrevResult, Ss) == IsAllTerminal(PrevResult) \/ Len(Ss) >= SizeBound

\* the size test with < for >
StopCond_Lt(PrevResult, Ss) == IsAllTerminal(PrevResult) \/ Len(Ss) < SizeBound

\* ExpandImpl's bool for the next round
StopCond(PrevResult, Ss) == IsAllTerminal(PrevResult) \/ Len(Ss) > SizeBound

\* Expand<I, S, RList>: ExpandImpl<I, List<S>, RList, S::IsTerminal>
Expand(r) ==
    /\ st[r].pc = "Expand"
    /\ Step(r, [st[r] EXCEPT !.pc = "ExpandImpl",
                             !.Ss = <<grammar.S>>,
                             !.done = IsTerminal(grammar.S)])

\* ExpandImpl<InI, ExpList, RList, true>: Result = ExpList, handed to Concat
ExpandImplBase(r) ==
    /\ st[r].pc = "ExpandImpl"
    /\ st[r].done
    /\ Step(r, [st[r] EXCEPT !.pc = "Concat"])

\* ExpandImpl<InI, List<Ss...>, RList, false>: ExpandOneSent<InI, List<>, List<Ss...>, RList>
ExpandImplRound(r) ==
    /\ st[r].pc = "ExpandImpl"
    /\ ~st[r].done
    /\ Len(st[r].sizes) < MaxRounds
    /\ Step(r, [st[r] EXCEPT !.pc = "ExpandOneSent",
                             !.ExpList = <<>>,
                             !.rest = st[r].Ss,
                             !.sizes = Append(@, Len(st[r].Ss))])

\* a terminal that advances the PRNG too
TerminalNextI_Advance(I) == CalcNextI(I)

\* NextI of ExpandSymbol<I, S, Rs, true>
TerminalNextI(I) == I

\* ExpandOneSent on a terminal Next: ExpandSymbol<I, S, Rs, true>
ExpandTerminal(r) ==
    /\ st[r].pc = "ExpandOneSent"
    /\ st[r].rest # <<>>
    /\ IsTerminal(Head(st[r].rest))
    /\ Step(r, [st[r] EXCEPT !.ExpList = ListCat(@, <<Head(st[r].rest)>>),
                             !.rest = Tail(@),
                             !.I = TerminalNextI(CurI(r))])

\* ExpandOneSent on a non-terminal Next: ExpandSymbol<I, S, RList, false>
ExpandNonTerminal(r) ==
    /\ st[r].pc = "ExpandOneSent"
    /\ st[r].rest # <<>>
    /\ ~IsTerminal(Head(st[r].rest))
    /\ LET Next    == Head(st[r].rest)
           Matches == MatchingRules(Next, grammar.Rs)
           Sum     == WeightSum(Matches)
       IN  IF Sum = 0
           THEN \* I % Sum is evaluated with Sum = 0: not a constant expression
                Step(r, [st[r] EXCEPT !.pc = "Error", !.err = "DivisionByZero"])
           ELSE LET Result == WSelect(Mod(CurI(r), Sum), Matches).Rhs
                IN  Step(r, [st[r] EXCEPT
                        !.ExpList = ListCat(@, Result),
                        !.rest = Tail(@),
                        !.I = CalcNextI(CurI(r)),
                        !.nexp = @ + 1,
                        !.sel = [v |-> CurI(r), sym |-> Next,
                                 idx |-> WSelectImpl(0, Mod(CurI(r), Sum), Matches),
                                 rhs |-> Result]])

\* ExpandOneSent<InI, ExpList, List<>, RList>, and ExpandImpl's next instantiation
ExpandOneSentBase(r) ==
    /\ st[r].pc = "ExpandOneSent"
    /\ st[r].rest = <<>>
    /\ Step(r, [st[r] EXCEPT !.pc = "ExpandImpl",
                             !.Ss = st[r].ExpList,
                             !.ExpList = <<>>,
                             !.done = StopCond(st[r].ExpList, st[r].Ss),
                             !.nts = @ + Cardinality({k \in 1 .. Len(st[r].Ss) :
                                                        ~IsTerminal(st[r].Ss[k])})])

\* Concat<List<S, Ss...>>: ConcatImpl<nullptr, MakeISeq<0>, MakeISeq<Strlen(S::Name)>, S, Ss...>
Concat(r) ==
    /\ st[r].pc = "Concat"
    /\ IF st[r].Ss = <<>>
       THEN \* Concat<List<>> is declared and never defined
            Step(r, [st[r] EXCEPT !.pc = "Error", !.err = "IncompleteType"])
       ELSE Step(r, [st[r] EXCEPT !.pc = "ConcatImpl", !.Str = <<>>, !.syms = st[r].Ss])

\* the two packs expanded in the other order
Partial_Swapped(Str, nl, Nm, nr) ==
    [k \in 1 .. (nl + nr) |-> IF k <= nr THEN Nm[k] ELSE Str[k - nr]]

\* {Str[LhsI]..., Sym::Name[RhsI]...} with LhsI = 0..nl-1 and RhsI = 0..nr-1
Partial(Str, nl, Nm, nr) ==
    [k \in 1 .. (nl + nr) |-> IF k <= nl THEN Str[k] ELSE Nm[k - nl]]

\* ConcatImpl<Str, ISeq<LhsI...>, ISeq<RhsI...>, Sym, Sym2, Syms...>
ConcatImplRec(r) ==
    /\ st[r].pc = "ConcatImpl"
    /\ Len(st[r].syms) >= 2
    /\ LET Nm   == Name(Head(st[r].syms))
           nl   == Len(st[r].Str)
           nr   == Strlen(Nm)
       IN  IF nl + nr = 0 /\ pedantic
           THEN \* const char Partial[0]
                Step(r, [st[r] EXCEPT !.pc = "Error", !.err = "ZeroSizeArray"])
           ELSE Step(r, [st[r] EXCEPT !.Str = Partial(st[r].Str, nl, Nm, nr),
                                      !.syms = Tail(@)])

\* ConcatImpl<Str, ISeq<LhsI...>, ISeq<RhsI...>, Sym>: String, '\0'-terminated
ConcatImplBase(r) ==
    /\ st[r].pc = "ConcatImpl"
    /\ Len(st[r].syms) = 1
    /\ LET Nm == Name(Head(st[r].syms))
       IN  Step(r, [st[r] EXCEPT
               !.pc = "Done",
               !.syms = <<>>,
               !.String = Partial(st[r].Str, Len(st[r].Str), Nm, Strlen(Nm)) \o <<NUL>>])

Next ==
    \/ \E r \in DOMAIN st : Expand(r)
    \/ \E r \in DOMAIN st : ExpandImplBase(r)
    \/ \E r \in DOMAIN st : ExpandImplRound(r)
    \/ \E r \in DOMAIN st : ExpandTerminal(r)
    \/ \E r \in DOMAIN st : ExpandNonTerminal(r)
    \/ \E r \in DOMAIN st : ExpandOneSentBase(r)
    \/ \E r \in DOMAIN st : Concat(r)
    \/ \E r \in DOMAIN st : ConcatImplRec(r)
    \/ \E r \in DOMAIN st : ConcatImplBase(r)

Spec == Init /\ [][Next]_vars

SpecTwo == InitTwo /\ [][Next]_vars

----------------------------------------------------------------------------
(* What the properties below speak of *)

Runs == DOMAIN st

\* the expansion of run r is over and its form was handed to the serializer
Stopped(r) ==
    \/ st[r].pc \in {"Concat", "ConcatImpl", "Done"}
    \/ st[r].pc = "Error" /\ st[r].err \in {"IncompleteType", "ZeroSizeArray"}

\* the rules of the grammar whose lhs is S, in declaration order
Candidates(S) == SelectSeq(grammar.Rs, LAMBDA R : R.Lhs = S)

AllPositive(Rs) == \A k \in 1 .. Len(Rs) : Rs[k].Weight > 0

\* the sum of the weights of the first n rules of Rs
RECURSIVE PrefixSum(_, _)
PrefixSum(Rs, n) == IF n = 0 THEN 0 ELSE PrefixSum(Rs, n - 1) + Rs[n].Weight

\* the rules of Rs (counted from 0) whose bucket holds idx
Owners(Rs, idx) ==
    {i \in 0 .. (Len(Rs) - 1) :
        PrefixSum(Rs, i) <= idx /\ idx < PrefixSum(Rs, i) + Rs[i + 1].Weight}

\* x, next(x), ..., next^(n-1)(x)
RECURSIVE Stream(_, _)
Stream(x, n) ==
    IF n = 1 THEN <<x>>
    ELSE LET L == Stream(x, n \div 2)
         IN  L \o Stream(CalcNextI(L[Len(L)]), n - (n \div 2))

\* the first StreamLen states of the PRNG from every seed tried
Streams == [x \in Seeds |-> Stream(x, StreamLen)]

\* next^k(seed)
NthState(k) ==
    IF k < StreamLen THEN Streams[seed][k + 1] ELSE Stream(seed, k + 1)[k + 1]

\* the literal text of a symbol: its Name without the terminating NUL
Text(s) == SubSeq(Name(s), 1, Len(Name(s)) - 1)

\* the texts of form[lo..hi], one after the other
RECURSIVE Flat(_, _, _)
Flat(form, lo, hi) ==
    IF lo > hi THEN <<>>
    ELSE IF lo = hi THEN Text(form[lo])
    ELSE Flat(form, lo, (lo + hi) \div 2) \o Flat(form, (lo + hi) \div 2 + 1, hi)

\* the summed text lengths of the symbols of form[lo..hi] that are in the set Of
RECURSIVE TextLen(_, _, _, _)
TextLen(form, lo, hi, Of) ==
    IF lo > hi THEN 0
    ELSE IF lo = hi THEN (IF form[lo] \in Of THEN Len(Text(form[lo])) ELSE 0)
    ELSE TextLen(form, lo, (lo + hi) \div 2, Of)
         + TextLen(form, (lo + hi) \div 2 + 1, hi, Of)

Range(f) == {f[k] : k \in DOMAIN f}

\* the non-terminals of the current round's form that the round has passed
NonTerminalsScanned(r) ==
    IF st[r].pc = "ExpandOneSent" \/ st[r].err = "DivisionByZero"
    THEN Cardinality({k \in 1 .. (Len(st[r].Ss) - Len(st[r].rest)) :
                         ~IsTerminal(st[r].Ss[k])})
    ELSE 0

Terminals(form) == {s \in Range(form) : IsTerminal(s)}

\* the text of a NUL-terminated array
TextOf(String) == SubSeq(String, 1, Len(String) - 1)

----------------------------------------------------------------------------
C2_SingleRuleTerminal ==
    grammar = GSingle =>
        \A r \in Runs :
            /\ st[r].pc # "Error"
            /\ st[r].pc = "Done" \/ ENABLED Next
            /\ Len(st[r].sizes) <= 1
            /\ st[r].pc = "Done" =>
                 /\ st[r].String = <<65, NUL>>
                 /\ st[r].Ss = <<"A">>
                 /\ Len(st[r].sizes) = 1

C2_Witness ==
    /\ grammar = GSingle
    /\ seed = Bits
    /\ st[1].pc = "Done"
    /\ st[1].String = <<65, NUL>>

(* C3: a selection made with PRNG value v among the rules R0..Rn-1 of the  *)
(* expanded symbol (declaration order, positive weights, Sum their sum)    *)
(* picks the one rule Ri with prefixSum(i) <= v mod Sum < prefixSum(i) +   *)
(* weight(Ri); with weights [2,3,5], 0..1 pick rule 0, 2..4 rule 1, 5..9   *)
(* rule 2, and v = 10 wraps to rule 0.                                     *)
C3_BucketSelection ==
    \A r \in Runs :
        LET sel == st[r].sel
            Rs  == Candidates(sel.sym)
        IN  sel # NoSel /\ AllPositive(Rs) =>
              LET Sum == PrefixSum(Rs, Len(Rs))
                  idx == Mod(sel.v, Sum)
              IN  /\ Owners(Rs, idx) = {sel.idx}
                  /\ sel.rhs = Rs[sel.idx + 1].Rhs
                  /\ grammar = GWeighted /\ sel.sym = "S" =>
                       /\ Sum = 10
                       /\ idx \in 0 .. 1 => sel.idx = 0 /\ sel.rhs = <<"A">>
                       /\ idx \in 2 .. 4 => sel.idx = 1 /\ sel.rhs = <<"B">>
                       /\ idx \in 5 .. 9 => sel.idx = 2 /\ sel.rhs = <<"A", "B">>
                       /\ sel.v = SizeT(10) => sel.idx = 0

C3_Witness ==
    /\ grammar = GWeighted
    /\ st[1].sel.v = SizeT(5)
    /\ st[1].sel.sym = "S"
    /\ st[1].sel.idx = 2
    /\ st[1].sel.rhs = <<"A", "B">>

(* C4: a run that reaches a non-terminal with no matching rule ends in a   *)
(* reported grammar-incompleteness error raised before v mod Sum is        *)
(* computed: the modulo by a zero sum is never evaluated.                  *)
C4_EmptyCandidatesReported ==
    \A r \in Runs :
        (st[r].rest # <<>> /\ ~IsTerminal(Head(st[r].rest))
           /\ Candidates(Head(st[r].rest)) = <<>>)
        => /\ st[r].err # "DivisionByZero"
           /\ st[r].pc = "Error" => st[r].err = "IncompleteGrammar"

(* C5: after a round the engine stops exactly if the form the round        *)
(* produced is all terminal or the form it started from had more than      *)
(* SizeBound symbols: a stopped engine holds a non-terminal only if its    *)
(* last round started from more than SizeBound symbols, and a further      *)
(* round is started only from a form with a non-terminal that the last     *)
(* round made from at most SizeBound symbols.                              *)
C5_StopCondition ==
    \A r \in Runs :
        LET n == Len(st[r].sizes)
        IN  /\ Stopped(r) =>
                 \/ IsAllTerminal(st[r].Ss)
                 \/ n > 0 /\ st[r].sizes[n] > SizeBound
            /\ st[r].pc = "ExpandImpl" /\ n > 0 =>
                 (st[r].done <=>
                    IsAllTerminal(st[r].Ss) \/ st[r].sizes[n] > SizeBound)
            /\ st[r].pc = "ExpandOneSent" =>
                 /\ ~IsAllTerminal(st[r].Ss)
                 /\ st[r].sizes[n] = Len(st[r].Ss)
                 /\ n > 1 => st[r].sizes[n - 1] <= SizeBound

\* a second round started from exactly SizeBound symbols left a non-terminal
\* and a third round is under way
C5_Witness ==
    /\ st[1].pc = "ExpandOneSent"
    /\ Len(st[1].sizes) = 3
    /\ st[1].sizes[2] = SizeBound
    /\ st[1].sizes[3] = SizeBound

C7_NonPositiveWeightRejected ==
    \A r \in Runs :
        st[r].sel # NoSel => AllPositive(Candidates(st[r].sel.sym))

(* C8: the PRNG state starts as the seed and is next^k(seed) after k       *)
(* non-terminals have been expanded, terminals and round ends leaving it   *)
(* alone; k is the number of non-terminals in the forms of the rounds      *)
(* completed and in the part of the current form already scanned; a        *)
(* selection uses the state before its own advance.                        *)
C8_PrngStepping ==
    \A r \in Runs :
        /\ st[r].I = NthState(st[r].nexp)
        /\ st[r].nexp = st[r].nts + NonTerminalsScanned(r)
        /\ st[r].nexp = 0 => st[r].sel = NoSel /\ st[r].I = seed
        /\ st[r].sel # NoSel =>
             /\ st[r].nexp > 0
             /\ st[r].sel.v = NthState(st[r].nexp - 1)

\* a run is done after terminals were copied and non-terminals expanded
\* in several rounds, from a seed that next moves
C8_Witness ==
    /\ st[1].pc = "Done"
    /\ Len(st[1].sizes) = 3
    /\ st[1].nexp > SizeBound
    /\ seed = SizeT(1)
    /\ st[1].I # seed

(* C9: with the single rule S -> S the engine never stops, for any seed;   *)
(* and at most one round is run from a form of more than SizeBound         *)
(* symbols: once a round has produced such a form, one more round runs.    *)
C9_SizeGuardOnly ==
    \A r \in Runs :
        /\ grammar = GLoop =>
             /\ ~Stopped(r)
             /\ st[r].pc # "Error"
             /\ st[r].pc = "ExpandImpl" => ~st[r].done
             /\ Len(st[r].sizes) < MaxRounds => ENABLED Next
        /\ Cardinality({k \in 1 .. Len(st[r].sizes) :
                           st[r].sizes[k] > SizeBound}) <= 1
        /\ \A k \in 1 .. Len(st[r].sizes) :
               st[r].sizes[k] > SizeBound => k = Len(st[r].sizes)

\* S -> S has been expanded round after round and the engine is about to
\* start another
C9_Witness ==
    /\ grammar = GLoop
    /\ seed = SizeT(7)
    /\ st[1].pc = "ExpandImpl"
    /\ ~st[1].done
    /\ Len(st[1].sizes) >= 3
    /\ st[1].Ss = <<"S">>

(* C10: 0 is a fixed point of next, so with seed 0 the PRNG state is 0 at  *)
(* every selection and every non-terminal whose rules have positive        *)
(* weights is expanded with its first-declared rule.                       *)
C10_SeedZero ==
    seed = {} =>
        \A r \in Runs :
            /\ st[r].I = {}
            /\ st[r].sel # NoSel =>
                 /\ st[r].sel.v = {}
                 /\ AllPositive(Candidates(st[r].sel.sym)) =>
                      /\ st[r].sel.idx = 0
                      /\ st[r].sel.rhs = Candidates(st[r].sel.sym)[1].Rhs

\* with seed 0 the recursive grammar took its first rule, of the lesser
\* weight, a third time
C10_Witness ==
    /\ seed = {}
    /\ grammar = GRecursive
    /\ st[1].nexp = 3
    /\ st[1].sel.rhs = <<"A", "S">>

=============================================================================
